---- MODULE Spec2Model ----
(***************************************************************************)
(* Model of monitor_news.py: one process that loads a configuration and a  *)
(* dedup ledger, fetches every URL of every configured source (feed or     *)
(* HTML), filters the candidate items, saves the ledger and delivers a     *)
(* notification.  Text is a sequence of one-character strings, a URL is a  *)
(* record [scheme, host, path], time is counted in days.                   *)
(***************************************************************************)
EXTENDS Integers, Sequences, FiniteSets, TLC

VARIABLES
    cfg,          \* content of config.yaml (NoConfig: unreadable / missing)
    web,          \* what each source URL currently answers
    file,         \* data/seen.json
    now,          \* the wall clock, time.time()
    pc,           \* position of main(); "idle" = no process running
    seen,         \* main's in-memory ledger
    since_ts,     \* main's since_ts
    srcIdx,       \* filter_and_collect: index of src in all_sources
    urlIdx,       \* fetch_source_items: index of u in source["urls"]
    items,        \* fetch_source_items: items extracted so far
    uniq,         \* fetch_source_items: its return value
    itIdx,        \* filter_and_collect: index of it in items
    results,      \* filter_and_collect: results
    saves,        \* number of save_seen calls of the current run
    fetches,      \* number of source URLs fetched by the current run
    loaded,       \* load_seen has returned in the current run
    exit,         \* how the run ended, once pc = "exited"
    ranBefore,    \* a run has finished before the current one started
    processed,    \* candidates (url, title) the current run has filtered
    accepted      \* (url, title) of every article ever accepted

vars == <<cfg, web, file, now, pc, seen, since_ts, srcIdx, urlIdx, items, uniq,
          itIdx, results, saves, fetches, loaded, exit, ranBefore, processed,
          accepted>>

\* ---------------------------------------------------------------- bounds
MaxTicks == 1

\* ------------------------------------------------------ program constants
Window == 8
MaxEntries == 50
MaxLinks == 50
MaxTitle == 200
MaxDesc == 500
StartNow == Window + 2
MaxNow == StartNow + MaxTicks

\* ------------------------------------------------------------------ text
Min(a, b) == IF a < b THEN a ELSE b

Take(s, n) == SubSeq(s, 1, Min(Len(s), n))

LowerOf == ("A" :> "a") @@ ("C" :> "c") @@ ("F" :> "f") @@ ("R" :> "r") @@ ("X" :> "x")

str_lower(s) == [i \in 1..Len(s) |-> IF s[i] \in DOMAIN LowerOf THEN LowerOf[s[i]] ELSE s[i]]

\* Python's `k in t` on strings
str_in(k, t) == \E i \in 0..(Len(t) - Len(k)) : SubSeq(t, i + 1, i + Len(k)) = k

RECURSIVE contains_any_from(_, _, _)
contains_any_from(t, keywords, i) ==
    IF i > Len(keywords) THEN FALSE
    ELSE IF str_in(str_lower(keywords[i]), t) THEN TRUE
    ELSE contains_any_from(t, keywords, i + 1)

contains_any(text, keywords) == contains_any_from(str_lower(text), keywords, 1)

\* f"{title} {summary}"
SearchText(title, summary) == title \o <<" ">> \o summary

legal_filter(title, summary, c) ==
    contains_any(SearchText(title, summary),
                 IF "legal_keywords" \in DOMAIN c THEN c["legal_keywords"] ELSE <<>>)

\* str.strip() for the blank
RECURSIVE str_strip(_)
str_strip(s) ==
    IF s = <<>> THEN s
    ELSE IF Head(s) = " " THEN str_strip(Tail(s))
    ELSE IF s[Len(s)] = " " THEN str_strip(SubSeq(s, 1, Len(s) - 1))
    ELSE s

Tag == "<>"

\* BeautifulSoup(summary).get_text(" ", strip=True): the text nodes between
\* the tags, each stripped, the empty ones dropped, joined by one blank.
RECURSIVE text_nodes(_, _)
text_nodes(s, cur) ==
    IF s = <<>> THEN <<cur>>
    ELSE IF Head(s) = Tag THEN <<cur>> \o text_nodes(Tail(s), <<>>)
    ELSE text_nodes(Tail(s), Append(cur, Head(s)))

RECURSIVE join_nodes(_)
join_nodes(ns) ==
    IF ns = <<>> THEN <<>>
    ELSE LET h == str_strip(Head(ns))
             r == join_nodes(Tail(ns))
         IN  IF h = <<>> THEN r
             ELSE IF r = <<>> THEN h
             ELSE h \o <<" ">> \o r

get_text(markup) == join_nodes(text_nodes(markup, <<>>))

\* ------------------------------------------------------------------ URLs
Url(h, p) == [scheme |-> "https", host |-> h, path |-> p]

ArticleSegs == {"/news/1", "/blog/2", "/news/9"}

\* any(seg in href for seg in ["/news", "/article", "/stories", "/202", "/blog"])
article_like(u) == u.path \in ArticleSegs

\* urlparse(u).netloc.replace("www.", "")
domain_from_url(u) == IF u.host = "www.b.com" THEN "b.com" ELSE u.host

\* the empty string as a URL
EmptyUrl == [scheme |-> "", host |-> "", path |-> ""]

\* a URL as text (page_title = url)
url_text(u) == <<u.scheme, "://", u.host, u.path>>

\* hashlib.sha1(url).hexdigest(): a digest determined by the URL alone,
\* different URLs giving different digests
hash_id(url) == <<"sha1", url>>

\* ------------------------------------------------------------- extraction
\* A dict key whose value is None is modelled as an absent field.
Has(d, k) == k \in DOMAIN d

\* d.get(k) or ""
GetText(d, k) == IF Has(d, k) THEN d[k] ELSE <<>>

Item(u, t, s) == [url |-> u, title |-> t, summary |-> s]

Dated(it, ts) == [url |-> it.url, title |-> it.title, summary |-> it.summary,
                  published_ts |-> ts]

\* time.mktime(e.published_parsed): a struct_time to a timestamp
mktime(st) == st.days

feed_item(e) ==
    LET it == Item(IF Has(e, "link") THEN e.link ELSE EmptyUrl,
                   GetText(e, "title"),
                   get_text(GetText(e, "summary")))
    IN  IF Has(e, "published_parsed") THEN Dated(it, mktime(e.published_parsed))
        ELSE it

try_feed_raises(w) ==
    IF ~w.feed.ok THEN [raised |-> TRUE, items |-> <<>>]
    ELSE LET es == Take(w.feed.entries, MaxEntries)
         IN  [raised |-> FALSE, items |-> [i \in 1..Len(es) |-> feed_item(es[i])]]

\* try_feed: a failing parse is caught and gives no items
try_feed(w) ==
    IF ~w.feed.ok THEN [raised |-> FALSE, items |-> <<>>]
    ELSE LET es == Take(w.feed.entries, MaxEntries)
         IN  [raised |-> FALSE, items |-> [i \in 1..Len(es) |-> feed_item(es[i])]]

\* the loop over soup.find_all("a", href=True)
RECURSIVE html_links(_, _)
html_links(anchors, url) ==
    IF anchors = <<>> THEN <<>>
    ELSE LET a == Head(anchors)
             \* a path-absolute href takes the page's scheme and host; a
             \* relative one without the leading slash has no host
             href == IF a.href.kind = "rootrel"
                     THEN [scheme |-> url.scheme, host |-> url.host, path |-> a.href.path]
                     ELSE IF a.href.kind = "abs" THEN Url(a.href.host, a.href.path)
                     ELSE [scheme |-> "", host |-> "", path |-> a.href.path]
             rest == html_links(Tail(anchors), url)
         IN  IF a.text = <<>> THEN rest
             ELSE IF href.host # url.host THEN rest
             ELSE IF article_like(href)
                  THEN <<Item(href, Take(a.text, MaxTitle), <<>>)>> \o rest
             ELSE rest

page_title(url, page) ==
    IF Has(page, "og_title") /\ page.og_title # <<>> THEN page.og_title
    ELSE IF Has(page, "title") /\ page.title # <<>> THEN str_strip(page.title)
    ELSE url_text(url)

page_desc(page) ==
    IF Has(page, "og_desc") /\ page.og_desc # <<>> THEN page.og_desc
    ELSE IF Has(page, "meta_desc") /\ page.meta_desc # <<>> THEN str_strip(page.meta_desc)
    ELSE <<>>

\* try_html: a failing request (network, timeout, HTTP status) is caught
try_html(url, w) ==
    IF ~w.page.ok THEN [raised |-> FALSE, items |-> <<>>]
    ELSE LET links == Take(html_links(w.page.anchors, url), MaxLinks)
         IN  [raised |-> FALSE,
              items |-> IF links = <<>>
                        THEN <<Item(url, Take(page_title(url, w.page), MaxTitle),
                                    Take(page_desc(w.page), MaxDesc))>>
                        ELSE links]

\* is_probable_rss: a failing probe is caught and answers False
is_probable_rss(w) == w.probe = "entries"

\* the "Dedup by URL" loop of fetch_source_items
RECURSIVE dedup_loop(_, _, _, _)
dedup_loop(its, i, seen_urls, acc) ==
    IF i > Len(its) THEN acc
    ELSE IF its[i].url \in seen_urls THEN dedup_loop(its, i + 1, seen_urls, acc)
    ELSE dedup_loop(its, i + 1, seen_urls \cup {its[i].url}, Append(acc, its[i]))

RECURSIVE dedup_keep_last(_)
dedup_keep_last(its) ==
    IF its = <<>> THEN <<>>
    ELSE IF \E j \in 2..Len(its) : its[j].url = its[1].url
         THEN dedup_keep_last(Tail(its))
    ELSE <<Head(its)>> \o dedup_keep_last(Tail(its))

dedup_by_url(its) == dedup_loop(its, 1, {}, <<>>)

\* ---------------------------------------------------------------- ledger
EmptyLedger == [k \in {} |-> 0]

load_seen_empty(f) == EmptyLedger

\* load_seen: a missing or unparsable file is an empty ledger
load_seen(f) == IF f.kind = "json" THEN f.data ELSE EmptyLedger

save_seen_nothing(s) == [kind |-> "json", data |-> EmptyLedger]

\* save_seen: the file is rewritten with the whole ledger
save_seen(s) == [kind |-> "json", data |-> s]

Mark_forgets(s, uid, t) == s

Mark_only(s, uid, t) == [k \in {uid} |-> t]

\* seen[uid] = time.time()
Mark(s, uid, t) == [k \in DOMAIN s \cup {uid} |-> IF k = uid THEN t ELSE s[k]]

\* ------------------------------------------------------------ the inputs
P1 == Url("a.com", "/feed")
P2 == Url("a.com", "/press")
P3 == Url("www.b.com", "/")
U1 == Url("a.com", "/news/1")
U2 == Url("a.com", "/blog/2")
U3 == Url("www.b.com", "/news/9")

PageURLs == {P1, P2, P3}

Sources == << [name |-> "Wire", urls |-> <<P1, P2>>], [urls |-> <<P3>>] >>

KwCompetitors == << <<"R", "c">> >>
KwIndustries == << <<"f">> >>
KwLegal == << <<"x">>, <<"A", "c">> >>

FullConfig == [sources |-> Sources, competitors |-> KwCompetitors,
               industries |-> KwIndustries, legal_keywords |-> KwLegal]
NoCompetitors == [sources |-> Sources, industries |-> KwIndustries, legal_keywords |-> KwLegal]
NoIndustries == [sources |-> Sources, competitors |-> KwCompetitors, legal_keywords |-> KwLegal]
NoLegal == [sources |-> Sources, competitors |-> KwCompetitors, industries |-> KwIndustries]
NoConfig == [load_error |-> TRUE]

Configs == {FullConfig, NoCompetitors, NoIndustries, NoLegal, NoConfig}

Day(n) == [days |-> n]

FeedA == << [link |-> U1, title |-> <<"r", "C", " ", "F">>,
             summary |-> <<Tag, "a", "C", Tag>>],
            [link |-> U1, title |-> <<"R", "c", "f", "x">>, published_parsed |-> Day(9)],
            [link |-> U2, title |-> <<"R", "c", "f", "x">>, published_parsed |-> Day(0)] >>

FeedB == << [link |-> U1, title |-> <<"R">>, summary |-> <<"c", "f", "x">>],
            [link |-> U3, summary |-> <<"r", "c", Tag, "f", "x">>, published_parsed |-> Day(3)],
            [link |-> U2, title |-> <<"R", "c", "f", "x">>, published_parsed |-> Day(1)],
            [title |-> <<"R", "c", "f">>, published_parsed |-> Day(9)] >>

PageA == [anchors |-> << [href |-> [kind |-> "rootrel", path |-> "/news/1"],
                          text |-> <<"R", "c", "f", "X">>],
                         [href |-> [kind |-> "abs", host |-> "c.org", path |-> "/news/9"],
                          text |-> <<"R", "c", "f", "x">>],
                         [href |-> [kind |-> "rootrel", path |-> "/about"],
                          text |-> <<"R", "c", "f", "x">>],
                         [href |-> [kind |-> "rel", path |-> "/blog/2"],
                          text |-> <<"R", "c", "f", "x">>],
                         [href |-> [kind |-> "abs", host |-> "a.com", path |-> "/blog/2"],
                          text |-> <<"R", "c", "x">>],
                         [href |-> [kind |-> "rootrel", path |-> "/news/9"],
                          text |-> <<>>] >>,
          title |-> <<"x">>]

PageB == [anchors |-> <<>>, title |-> <<" ", "R", "c", "x">>, meta_desc |-> <<"F", " ">>]

NoFeed == [ok |-> FALSE]
NoPage == [ok |-> FALSE]
Feed(es) == [ok |-> TRUE, entries |-> es]
Page(pg) == [ok |-> TRUE] @@ pg

\* What a source URL answers: the classification probe (entries seen, none
\* seen, or the probe failing), the feed parse and the page request.
IsFeedA == [probe |-> "entries", feed |-> Feed(FeedA), page |-> NoPage]
IsFeedB == [probe |-> "entries", feed |-> Feed(FeedB), page |-> NoPage]
FeedBreaks == [probe |-> "entries", feed |-> NoFeed, page |-> Page(PageB)]
IsPageA == [probe |-> "none", feed |-> NoFeed, page |-> Page(PageA)]
ProbeBreaks == [probe |-> "error", feed |-> Feed(FeedA), page |-> Page(PageB)]
PageBreaks == [probe |-> "none", feed |-> NoFeed, page |-> NoPage]
AllBreaks == [probe |-> "error", feed |-> NoFeed, page |-> NoPage]

OutcomesOf(u) == IF u = P1 THEN {IsFeedA, IsFeedB, FeedBreaks}
                 ELSE IF u = P2 THEN {IsPageA, ProbeBreaks, PageBreaks}
                 ELSE {IsFeedA, IsFeedB, AllBreaks}

Webs == {w \in [PageURLs -> UNION {OutcomesOf(u) : u \in PageURLs}] :
            \A u \in PageURLs : w[u] \in OutcomesOf(u)}

Files == { [kind |-> "missing", data |-> EmptyLedger],
           [kind |-> "corrupt", data |-> EmptyLedger],
           [kind |-> "json", data |-> Mark(EmptyLedger, hash_id(U2), 1)] }

\* ---------------------------------------------------------------- filter
\* it.get("published_ts") or time.time()
Published(it, t) ==
    IF Has(it, "published_ts") /\ it.published_ts # 0 THEN it.published_ts ELSE t

Verdict_skips_industries(it, c, since, s, t) ==
    LET text == SearchText(it.title, it.summary)
    IN  IF hash_id(it.url) \in DOMAIN s THEN "seen"
        ELSE IF Published(it, t) < since THEN "old"
        ELSE IF ~Has(c, "competitors") THEN "KeyError"
        ELSE IF ~contains_any(text, c.competitors) THEN "nomatch"
        ELSE IF ~legal_filter(it.title, it.summary, c) THEN "nomatch"
        ELSE "accept"

\* The body of the loop of filter_and_collect for one item: "seen", "old",
\* "nomatch" are the three kinds of `continue`, "KeyError" is the failing
\* lookup cfg["competitors"] / cfg["industries"], "accept" the append.
Verdict(it, c, since, s, t) ==
    LET text == SearchText(it.title, it.summary)
    IN  IF hash_id(it.url) \in DOMAIN s THEN "seen"
        ELSE IF Published(it, t) < since THEN "old"
        ELSE IF ~Has(c, "competitors") THEN "KeyError"
        ELSE IF ~contains_any(text, c.competitors) THEN "nomatch"
        ELSE IF ~Has(c, "industries") THEN "KeyError"
        ELSE IF ~contains_any(text, c.industries) THEN "nomatch"
        ELSE IF ~legal_filter(it.title, it.summary, c) THEN "nomatch"
        ELSE "accept"

Untitled == <<"(", "u", "n", "t", "i", "t", "l", "e", "d", ")">>

Article(it, src, t) ==
    [title |-> IF it.title # <<>> THEN it.title ELSE Untitled,
     url |-> it.url,
     summary |-> it.summary,
     published_ts |-> Published(it, t),
     source |-> IF Has(src, "name") /\ src.name # "" THEN src.name
                ELSE domain_from_url(it.url)]

\* ------------------------------------------------------------------ main
Init ==
    /\ cfg \in Configs
    /\ web \in Webs
    /\ file \in Files
    /\ now = StartNow
    /\ pc = "idle"
    /\ seen = EmptyLedger
    /\ since_ts = 0
    /\ srcIdx = 0
    /\ urlIdx = 0
    /\ items = <<>>
    /\ uniq = <<>>
    /\ itIdx = 0
    /\ results = <<>>
    /\ saves = 0
    /\ fetches = 0
    /\ loaded = FALSE
    /\ exit = "none"
    /\ ranBefore = FALSE
    /\ processed = {}
    /\ accepted = {}

env == <<cfg, web, file, now>>
loop == <<srcIdx, urlIdx, items, uniq, itIdx>>

\* the process exits: normally, or with an exception nobody catches
Exit(how) == pc' = "exited" /\ exit' = how

\* the scheduler starts main()
StartRun ==
    /\ pc = "idle"
    /\ pc' = "load_config"
    /\ UNCHANGED <<env, seen, since_ts, loop, results, saves, fetches, loaded,
                   exit, ranBefore, processed, accepted>>

\* the process is gone, and its memory with it
ProcessExit ==
    /\ pc = "exited"
    /\ pc' = "idle"
    /\ seen' = EmptyLedger
    /\ since_ts' = 0
    /\ srcIdx' = 0 /\ urlIdx' = 0 /\ items' = <<>> /\ uniq' = <<>> /\ itIdx' = 0
    /\ results' = <<>>
    /\ saves' = 0 /\ fetches' = 0 /\ loaded' = FALSE
    /\ exit' = "none"
    /\ ranBefore' = TRUE
    /\ processed' = {}
    /\ UNCHANGED <<env, accepted>>

\* cfg = load_config()
LoadConfig ==
    /\ pc = "load_config"
    /\ IF cfg = NoConfig THEN Exit("config_error")
       ELSE pc' = "load_seen" /\ UNCHANGED exit
    /\ UNCHANGED <<env, seen, since_ts, loop, results, saves, fetches, loaded,
                   ranBefore, processed, accepted>>

\* seen = load_seen()
LoadSeen ==
    /\ pc = "load_seen"
    /\ seen' = load_seen(file)
    /\ loaded' = TRUE
    /\ pc' = "since"
    /\ UNCHANGED <<env, since_ts, loop, results, saves, fetches, exit,
                   ranBefore, processed, accepted>>

AllSources == IF Has(cfg, "sources") THEN cfg.sources ELSE <<>>

\* since_ts = (now - 8 days).timestamp(); filter_and_collect is entered
ComputeSince ==
    /\ pc = "since"
    /\ since_ts' = now - Window
    /\ IF AllSources = <<>>
       THEN pc' = "save" /\ UNCHANGED loop
       ELSE /\ pc' = "fetch"
            /\ srcIdx' = 1 /\ urlIdx' = 1 /\ items' = <<>>
            /\ UNCHANGED <<uniq, itIdx>>
    /\ UNCHANGED <<env, seen, results, saves, fetches, loaded, exit,
                   ranBefore, processed, accepted>>

SourceUrls(src) == IF Has(src, "urls") THEN src.urls ELSE <<>>

\* one turn of `for u in source.get("urls", [])`
FetchUrl ==
    /\ pc = "fetch"
    /\ urlIdx <= Len(SourceUrls(AllSources[srcIdx]))
    /\ LET u == SourceUrls(AllSources[srcIdx])[urlIdx]
           use_rss == is_probable_rss(web[u])
           r == IF use_rss THEN try_feed(web[u]) ELSE try_html(u, web[u])
       IN  IF r.raised
           THEN Exit("fetch_error") /\ UNCHANGED <<urlIdx, items>>
           ELSE /\ items' = items \o r.items
                /\ urlIdx' = urlIdx + 1
                /\ UNCHANGED <<pc, exit>>
    /\ fetches' = fetches + 1
    /\ UNCHANGED <<env, seen, since_ts, srcIdx, uniq, itIdx, results, saves,
                   loaded, ranBefore, processed, accepted>>

\* the end of fetch_source_items: "Dedup by URL", return uniq
Dedup ==
    /\ pc = "fetch"
    /\ urlIdx > Len(SourceUrls(AllSources[srcIdx]))
    /\ uniq' = dedup_by_url(items)
    /\ itIdx' = 1
    /\ pc' = "filter"
    /\ UNCHANGED <<env, seen, since_ts, srcIdx, urlIdx, items, results, saves,
                   fetches, loaded, exit, ranBefore, processed, accepted>>

Cand(it) == [url |-> it.url, title |-> it.title]

\* one turn of `for it in items` in filter_and_collect
FilterItem ==
    /\ pc = "filter"
    /\ itIdx <= Len(uniq)
    /\ LET it == uniq[itIdx]
           v == Verdict(it, cfg, since_ts, seen, now)
       IN  /\ processed' = processed \cup {Cand(it)}
           /\ IF v = "KeyError"
              THEN Exit("lookup_error") /\ UNCHANGED <<itIdx, results, seen, accepted>>
              ELSE /\ itIdx' = itIdx + 1
                   /\ UNCHANGED <<pc, exit>>
                   /\ IF v = "accept"
                      THEN /\ results' = Append(results, Article(it, AllSources[srcIdx], now))
                           /\ seen' = Mark(seen, hash_id(it.url), now)
                           /\ accepted' = accepted \cup {Cand(it)}
                      ELSE UNCHANGED <<results, seen, accepted>>
    /\ UNCHANGED <<env, since_ts, srcIdx, urlIdx, items, uniq, saves, fetches,
                   loaded, ranBefore>>

\* the items of one source are exhausted: next source, or return results
SourceDone ==
    /\ pc = "filter"
    /\ itIdx > Len(uniq)
    /\ IF srcIdx < Len(AllSources)
       THEN /\ srcIdx' = srcIdx + 1 /\ urlIdx' = 1 /\ items' = <<>>
            /\ pc' = "fetch"
            /\ UNCHANGED <<uniq, itIdx>>
       ELSE pc' = "save" /\ UNCHANGED loop
    /\ UNCHANGED <<env, seen, since_ts, results, saves, fetches, loaded,
                   exit, ranBefore, processed, accepted>>

\* save_seen(seen)
SaveSeen ==
    /\ pc = "save"
    /\ file' = save_seen(seen)
    /\ saves' = saves + 1
    /\ pc' = "deliver"
    /\ UNCHANGED <<cfg, web, now, seen, since_ts, loop, results, fetches,
                   loaded, exit, ranBefore, processed, accepted>>

\* SLACK_WEBHOOK_URL is not set: the payload is printed
DryRun ==
    /\ pc = "deliver"
    /\ Exit("printed")
    /\ UNCHANGED <<env, seen, since_ts, loop, results, saves, fetches, loaded,
                   ranBefore, processed, accepted>>

\* post_to_slack, the endpoint answering below 300
PostOk ==
    /\ pc = "deliver"
    /\ Exit("posted")
    /\ UNCHANGED <<env, seen, since_ts, loop, results, saves, fetches, loaded,
                   ranBefore, processed, accepted>>

\* post_to_slack raising RuntimeError (status >= 300) or a request error
PostFail ==
    /\ pc = "deliver"
    /\ Exit("delivery_error")
    /\ UNCHANGED <<env, seen, since_ts, loop, results, saves, fetches, loaded,
                   ranBefore, processed, accepted>>

\* the wall clock advances: between two runs, and while a run waits for the
\* network; it never goes back
Tick ==
    /\ now < MaxNow
    /\ pc \in {"idle", "fetch"}
    /\ now' = now + 1
    /\ UNCHANGED <<cfg, web, file, pc, seen, since_ts, loop, results, saves,
                   fetches, loaded, exit, ranBefore, processed, accepted>>

\* between two runs the sites publish something else
WebChange ==
    /\ pc = "idle"
    /\ web' \in Webs \ {web}
    /\ UNCHANGED <<cfg, file, now, pc, seen, since_ts, loop, results, saves,
                   fetches, loaded, exit, ranBefore, processed, accepted>>

Run ==
    \/ StartRun \/ LoadConfig \/ LoadSeen \/ ComputeSince \/ FetchUrl \/ Dedup
    \/ FilterItem \/ SourceDone \/ SaveSeen \/ DryRun \/ PostOk \/ PostFail
    \/ ProcessExit

Next == Run \/ Tick \/ WebChange

Spec == Init /\ [][Next]_vars

\* successive runs over unchanged sites
NextStable == Run \/ Tick

SpecStable == Init /\ [][NextStable]_vars

\* ================================================================ claims
Categories == {"competitors", "industries", "legal_keywords"}

Fold(c) == IF c \in DOMAIN LowerOf THEN LowerOf[c] ELSE c

\* keyword k occurs in text t, letter case ignored
Occurs(k, t) ==
    \E i \in 0..Len(t) :
        /\ i + Len(k) <= Len(t)
        /\ \A j \in 1..Len(k) : Fold(t[i + j]) = Fold(k[j])

\* the step appends an article to results
Accepting == pc = "filter" /\ results' # results

CurUrls == SourceUrls(AllSources[srcIdx])

\* C1: every article filter_and_collect accepts has, in the text "title
\* summary" of its item, a keyword of each of the three configured lists,
\* letter case ignored.
C1_AcceptedMatchesAll ==
    [][Accepting =>
         LET it == uniq[itIdx]
             text == it.title \o <<" ">> \o it.summary
         IN  \A cat \in Categories :
                 /\ cat \in DOMAIN cfg
                 /\ \E n \in 1..Len(cfg[cat]) : Occurs(cfg[cat][n], text)]_vars

C1_Witness ==
    \E i \in 1..Len(results) :
        results[i].title = <<"r", "C", " ", "F">> /\ results[i].summary = <<"a", "C">>

\* C2, as stated: of two candidates with the same URL and different titles
\* that reach the filter in one pass, the second is never accepted.  (Stated
\* for the items whose published time is not the epoch, so that a violation
\* does not rest on the case of C7.)
C2_SecondNeverAccepted ==
    [][(Accepting /\ ~("published_ts" \in DOMAIN uniq[itIdx]
                       /\ uniq[itIdx].published_ts = 0)) =>
         ~\E p \in processed :
             p.url = uniq[itIdx].url /\ p.title # uniq[itIdx].title]_vars

SecondOfAccepted ==
    /\ pc = "filter"
    /\ itIdx <= Len(uniq)
    /\ \E a \in accepted : a.url = uniq[itIdx].url /\ a.title # uniq[itIdx].title

\* C2, amended: once an item has been accepted, a later candidate with the
\* same URL and another title that reaches the filter (another source, a
\* later run) finds its identifier in the ledger and is not accepted.
C2_AcceptedFirstBlocksSecond ==
    [][SecondOfAccepted =>
         /\ hash_id(uniq[itIdx].url) \in DOMAIN seen
         /\ results' = results]_vars

C2_Witness == SecondOfAccepted /\ ranBefore

\* C3: a run that follows a finished run over unchanged sites, starting
\* from the ledger that run left, accepts no article.
C3_SecondRunAcceptsNothing == ranBefore => results = <<>>

C3_Witness ==
    /\ ranBefore
    /\ pc = "save"
    /\ \E c \in processed : c \in accepted

\* C4: a run that has loaded the ledger has saved it exactly once when it
\* ends, however it ends.
C4_SavedOnceWhateverOutcome == (pc = "exited" /\ loaded) => saves = 1

\* C5: delivery is attempted only after the one save of the ledger, and by
\* then the ledger file holds the identifier of every accepted article,
\* also when delivery fails.
C5_DeliveryAfterSave ==
    (pc = "deliver" \/ (pc = "exited" /\ exit \in {"printed", "posted", "delivery_error"})) =>
        /\ saves = 1
        /\ file.kind = "json"
        /\ \A i \in 1..Len(results) : hash_id(results[i].url) \in DOMAIN file.data

C5_Witness == pc = "exited" /\ exit = "delivery_error" /\ results # <<>>

\* C6: with one of the three keyword lists missing from the configuration
\* the run ends in a lookup failure and fetches no URL.
C6_AbortBeforeNetwork ==
    (cfg # NoConfig /\ \E cat \in Categories : cat \notin DOMAIN cfg) =>
        /\ fetches = 0
        /\ pc = "exited" => exit = "lookup_error"

\* C7: the effective timestamp of an accepted item (its published time when
\* it has one, the wall clock otherwise) is not before since_ts.
C7_EffectiveTimestampInWindow ==
    [][Accepting =>
         LET it == uniq[itIdx]
             effective == IF "published_ts" \in DOMAIN it THEN it.published_ts ELSE now
         IN  effective >= since_ts]_vars

FileIds(f) == IF f.kind = "json" THEN DOMAIN f.data ELSE {}

\* C8: no step of a run removes an identifier from the in-memory ledger, and
\* no step removes one from the ledger file.
C8_LedgerOnlyGrows ==
    [][/\ pc # "exited" => DOMAIN seen \subseteq DOMAIN seen'
       /\ FileIds(file) \subseteq FileIds(file')]_vars

C8_Witness ==
    /\ pc = "deliver"
    /\ hash_id(U2) \in FileIds(file)
    /\ file.data[hash_id(U2)] = 1
    /\ Cardinality(FileIds(file)) >= 2

ProbeError(w) == w.probe = "error"

ExtractionError(w) == IF w.probe = "entries" THEN ~w.feed.ok ELSE ~w.page.ok

FetchingUrl == pc = "fetch" /\ urlIdx <= Len(CurUrls) /\ urlIdx' # urlIdx

\* C9, as stated: a fetch error at the probe, the feed extraction or the
\* HTML extraction of a URL gives no item for that URL.
C9_AnyFetchErrorGivesNoItems ==
    [][(FetchingUrl /\ (ProbeError(web[CurUrls[urlIdx]])
                        \/ ExtractionError(web[CurUrls[urlIdx]])))
         => items' = items]_vars

TotalUrls == Len(SourceUrls(Sources[1])) + Len(SourceUrls(Sources[2]))

\* C9, amended: a failing feed or HTML extraction gives no item for its URL;
\* a failing probe makes the URL an HTML page; whichever stage fails, the
\* run goes on with the next URL, no run ends on a fetch error, and a run
\* that reaches the save has fetched every URL of every source.
C9_FetchErrorsContained ==
    [][/\ (pc = "fetch" /\ urlIdx <= Len(CurUrls) /\ now' = now
           /\ (ProbeError(web[CurUrls[urlIdx]]) \/ ExtractionError(web[CurUrls[urlIdx]])))
          => /\ pc' = "fetch"
             /\ urlIdx' = urlIdx + 1
             /\ ExtractionError(web[CurUrls[urlIdx]]) => items' = items
       /\ exit' # "fetch_error"
       /\ pc' = "save" => fetches' = TotalUrls]_vars

C9_Witness ==
    /\ pc = "save"
    /\ ~web[P1].feed.ok
    /\ ProbeError(web[P2])
    /\ results # <<>>

\* C10: fetch_source_items returns the extracted items without those whose
\* URL occurred earlier: no URL twice, first occurrence kept, order kept.
C10_DedupFirstWins ==
    pc = "filter" =>
        LET keep == {i \in 1..Len(items) :
                        \A j \in 1..(i - 1) : items[j].url # items[i].url}
            nth(k) == CHOOSE i \in keep : Cardinality({j \in keep : j <= i}) = k
        IN  /\ \A i, j \in 1..Len(uniq) : i # j => uniq[i].url # uniq[j].url
            /\ Len(uniq) = Cardinality(keep)
            /\ \A k \in 1..Len(uniq) : uniq[k] = items[nth(k)]

C10_Witness ==
    /\ pc = "filter"
    /\ Len(uniq) >= 2
    /\ \E i, j \in 1..Len(items) :
           i < j /\ items[i].url = items[j].url /\ items[i].title # items[j].title

====
